---- MODULE Spec2Model ----
(***************************************************************************)
(* Model of the application launcher (src/Launcher_main.py): the entry     *)
(* registry held by MainWindow.entries, the list widget that shows it, the *)
(* JSON document launcher_data.json and its backup generations .bak1 ..    *)
(* .bak10.                                                                 *)
(*                                                                         *)
(* Values.  An id is a natural number: 0 stands for a falsy id (the empty  *)
(* string, as a document may hold it), 1, 2, ... are the values handed out *)
(* by uuid.uuid4() in the order of the calls (a uuid never repeats and     *)
(* never equals an id written by hand into a document), and numbers from   *)
(* 101 on are ids found in documents that were on disk at start-up.        *)
(* A path is a record [dir, stem, ext]; a name or a description is a       *)
(* string.  A LauncherEntry object is known by the number of the uuid4     *)
(* call made when it was constructed (every constructor call makes one),   *)
(* whatever id it was then given.                                          *)
(***************************************************************************)
EXTENDS Naturals, Sequences, FiniteSets

VARIABLES
    entries,    \* MainWindow.entries: the registry, a sequence of LauncherEntry
    view,       \* the UserRole data of the items of MainWindow.list, in row order
    doc,        \* the content of launcher_data.json
    backups,    \* generation number -> content of launcher_data.json.bak<i>
    uuids,      \* how many times uuid.uuid4() has been called
    saves,      \* calls of save_entries that wrote the document completely
    fails,      \* calls of save_entries that raised, of restore_from_backup that failed
    restores,   \* calls of restore_from_backup that copied the backup
    hist,       \* document contents S0, S1, ... after each completed save (SpecStore)
    lastOp,     \* what the last handler was given and what it did
    files,      \* the paths that exist on the filesystem (os.path.exists)
    plan,       \* the entry the step just taken gave to _run_entry and what that
                \* handed to the operating system (NoPlan when the step was no run)
    objs,       \* the identity of each LauncherEntry object of the registry, by index
    widgets,    \* the widget set on each item of MainWindow.list, in row order
    calls       \* handler calls that neither saved nor restored: calls of
                \* _run_entry, dialogs that came to nothing, reorders turned down

vars == <<entries, view, doc, backups, uuids, saves, fails, restores, hist, lastOp,
          files, plan, objs, widgets, calls>>

-----------------------------------------------------------------------------
(* Bounds of the model. *)

MaxEntries == 2         \* add is offered while the registry is shorter
MaxIO == 3              \* handler calls in a run (a drop counts once, a call whose
                        \* save or restore fails twice)
MaxIOMany == 1          \* the same in a run that starts with more than three
                        \* entries
MaxStoreSaves == 12     \* calls of save_entries in a run of SpecStore
MaxFails == 1           \* of them, calls that raise
MaxCodecLen == 2        \* length of the lists SpecCodec starts from
MaxGone == 1            \* files that disappear in a run of SpecRun

(* Program constants. *)

MaxGen == 10        \* get_backup_files: range(1, 11)
RotateFrom == 9     \* _backup_data_file: range(9, 0, -1)

-----------------------------------------------------------------------------
(* Paths and text. *)

EmptyPath == [dir |-> "", stem |-> "", ext |-> ""]
BlankPath == [dir |-> "", stem |-> " ", ext |-> ""]
NotesPy == [dir |-> "C:/apps", stem |-> "Notes", ext |-> ".py"]
CalcExe == [dir |-> "C:/apps", stem |-> "Calc", ext |-> ".EXE"]
GoneBat == [dir |-> "C:/old", stem |-> "Gone", ext |-> ".bat"]
RelTxt == [dir |-> "", stem |-> "readme", ext |-> ".txt"]

ToolPY == [dir |-> "C:/apps", stem |-> "Tool", ext |-> ".PY"]
GuiPyw == [dir |-> "C:/apps", stem |-> "Gui", ext |-> ".Pyw"]
SetupCmd == [dir |-> "C:/apps", stem |-> "Setup", ext |-> ".Cmd"]
ReadMe == [dir |-> "C:/docs", stem |-> "README", ext |-> ""]
RelPy == [dir |-> "", stem |-> "job", ext |-> ".py"]
RelBat == [dir |-> "", stem |-> "build", ext |-> ".bat"]

\* the working directory of the process
Cwd == "C:/cwd"

\* the working directory itself, as os.path.abspath("") names it: "C:/cwd",
\* the directory "C:" and the base name "cwd"
CwdPath == [dir |-> "C:", stem |-> "cwd", ext |-> ""]

\* the files and directories present on the filesystem when the program starts
ExistingPaths ==
    {CwdPath, NotesPy, CalcExe, ToolPY, GuiPyw, SetupCmd, ReadMe,
     [dir |-> Cwd, stem |-> "readme", ext |-> ".txt"],
     [dir |-> Cwd, stem |-> "job", ext |-> ".py"],
     [dir |-> Cwd, stem |-> "build", ext |-> ".bat"]}

\* str.strip() on the texts the dialogs are given
Strip(s) ==
    CASE s = " " -> ""
      [] s = " Calc " -> "Calc"
      [] s = " tool" -> "tool"
      [] OTHER -> s

StripPath(p) == IF p = BlankPath THEN EmptyPath ELSE p

\* os.path.abspath: a relative path is joined to the working directory and
\* the result normalised, so the empty path, and the working directory
\* written with a trailing separator, give the working directory itself
Abspath(p) ==
    IF p.stem = "" /\ p.ext = "" /\ p.dir \in {"", Cwd} THEN CwdPath
    ELSE IF p.dir = "" THEN [p EXCEPT !.dir = Cwd]
    ELSE p

\* os.path.exists: the empty path names nothing; any other path is looked up
\* from the working directory
Exists(path) == path # EmptyPath /\ Abspath(path) \in files

\* os.path.splitext(os.path.basename(filepath))[0]
BaseName(p) == p.stem

NameInputs == {" ", " Calc "}
PathInputs == {BlankPath, GoneBat}
DescInputs == {" tool"}
DroppedPaths == {RelTxt}

-----------------------------------------------------------------------------
(* LauncherEntry and the JSON document. *)

FieldNames == {"id", "name", "path", "description", "entry_type"}

LauncherEntry(id, name, path, description, entry_type) ==
    [id |-> id, name |-> name, path |-> path,
     description |-> description, entry_type |-> entry_type]

\* A JSON value of the "entries" array: an object (dict |-> TRUE) with the
\* members obj, or some other JSON value (a number, a string, null).
JsonObject(members) == [dict |-> TRUE, obj |-> members]
JsonScalar == [dict |-> FALSE, obj |-> << >>]

\* asdict with the description left out
AsDictNoDescription(e) ==
    JsonObject([k \in FieldNames \ {"description"} |-> e[k]])

\* dataclasses.asdict(e)
AsDict(e) == JsonObject([k \in FieldNames |-> e[k]])

\* The content of a file: absent (no such file), corrupt (not JSON, or JSON
\* whose top level is not an object), noentries (an object without the
\* "entries" member) or object (an object with the "entries" array items).
Absent == [kind |-> "absent", items |-> << >>]
Corrupt == [kind |-> "corrupt", items |-> << >>]
NoEntries == [kind |-> "noentries", items |-> << >>]
Document(items) == [kind |-> "object", items |-> items]

\* save_entries: data = {"entries": [asdict(e) for e in entries]}
Serialize(es) == Document([i \in 1..Len(es) |-> AsDict(es[i])])

\* dict.get(key, default)
Get(obj, key, default) == IF key \in DOMAIN obj THEN obj[key] ELSE default

\* load_entries, lines 92-104: one record of the array. uuid.uuid4() is
\* evaluated for every record, used or not; a record that is no object makes
\* it.get raise, and the record is skipped.
ParseRecord(it, u) ==
    LauncherEntry(Get(it.obj, "id", u),
                  Get(it.obj, "name", ""),
                  Get(it.obj, "path", EmptyPath),
                  Get(it.obj, "description", ""),
                  Get(it.obj, "entry_type", "app"))

\* load_entries without the inner try: one record that is no object and
\* the whole load comes back empty
ParseItemsAbort(items, i, u) ==
    IF \E k \in i..Len(items) : ~items[k].dict
    THEN [entries |-> << >>, uuids |-> u]
    ELSE [entries |-> [k \in 1..(Len(items) - i + 1) |->
                         ParseRecord(items[i + k - 1], u + k)],
          uuids |-> u + (Len(items) - i + 1)]

RECURSIVE ParseItems(_, _, _)
ParseItems(items, i, u) ==
    IF i > Len(items) THEN [entries |-> << >>, uuids |-> u]
    ELSE IF items[i].dict
         THEN LET rest == ParseItems(items, i + 1, u + 1)
              IN  [entries |-> <<ParseRecord(items[i], u + 1)>> \o rest.entries,
                   uuids |-> rest.uuids]
         ELSE ParseItems(items, i + 1, u)

\* load_entries: the entries read from the file content d, and the number of
\* uuid4 calls made so far
LoadEntries(d, u) ==
    IF d.kind = "object" THEN ParseItems(d.items, 1, u)
    ELSE [entries |-> << >>, uuids |-> u]

-----------------------------------------------------------------------------
(* Backups. *)

Range(f) == {f[i] : i \in DOMAIN f}

Gens == 1..MaxGen

NoBackups == [g \in Gens |-> Absent]

Present(b, g) == b[g].kind # "absent"

\* get_backup_files: the generations present, ascending
RECURSIVE BackupsFrom(_, _)
BackupsFrom(b, g) ==
    IF g > MaxGen THEN << >>
    ELSE (IF Present(b, g) THEN <<g>> ELSE << >>) \o BackupsFrom(b, g + 1)

\* the list with the newest generation last
GetBackupFilesNewestLast(b) ==
    LET up == BackupsFrom(b, 1)
    IN  [i \in 1..Len(up) |-> up[Len(up) + 1 - i]]

GetBackupFiles(b) == BackupsFrom(b, 1)

\* _backup_data_file, lines 139-145: for i = 9 down to 1, rename .bak<i> to
\* .bak<i+1>, removing what was there
\* the rotation run upwards, from .bak1 to .bak<i>
RECURSIVE RotateUp(_, _, _)
RotateUp(b, k, i) ==
    IF k > i THEN b
    ELSE IF Present(b, k)
         THEN RotateUp([b EXCEPT ![k + 1] = b[k], ![k] = Absent], k + 1, i)
         ELSE RotateUp(b, k + 1, i)

RotateAscending(b, i) == RotateUp(b, 1, i)

RECURSIVE Rotate(_, _)
Rotate(b, i) ==
    IF i < 1 THEN b
    ELSE IF Present(b, i)
         THEN Rotate([b EXCEPT ![i + 1] = b[i], ![i] = Absent], i - 1)
         ELSE Rotate(b, i - 1)

\* the rotation as far as it gets when it breaks off at generation k: the
\* steps for i down to k + 1 are done
RECURSIVE RotateDown(_, _, _)
RotateDown(b, i, k) ==
    IF i <= k THEN b
    ELSE IF Present(b, i)
         THEN RotateDown([b EXCEPT ![i + 1] = b[i], ![i] = Absent], i - 1, k)
         ELSE RotateDown(b, i - 1, k)

\* The outcomes of a call of save_entries. The write of the document is "ok",
\* or it raised: "open" (open() raised: the document is left as it was) or
\* "partial" (the write raised after the file was truncated: the document is
\* no longer valid JSON).
WriteOutcomes == {"ok", "open", "partial"}

\* Or _backup_data_file raised before the document was opened: "remove"
\* (os.remove of line 144 raised), RenameFailed[k] (os.rename of line 145
\* raised for .bak<k>), "nocopy" (shutil.copy2 raised before it made .bak1),
\* "copy" (shutil.copy2 raised with a part of the document in .bak1), "stat"
\* (shutil.copy2 raised in copystat, after the whole document was copied).
RenameFailed ==
    <<"rename1", "rename2", "rename3", "rename4", "rename5", "rename6",
      "rename7", "rename8", "rename9">>

\* the generation whose rename raised
RenameGen(outcome) == CHOOSE k \in 1..RotateFrom : RenameFailed[k] = outcome

\* the ways _backup_data_file can raise, given the document and the backups
BackupFailures(d, b) ==
    IF d.kind = "absent" THEN {}
    ELSE {"nocopy", "copy", "stat"}
         \cup {RenameFailed[k] : k \in {g \in 1..RotateFrom : Present(b, g)}}
         \cup (IF Present(b, RotateFrom) /\ Present(b, MaxGen) THEN {"remove"} ELSE {})

SaveOutcomes(d, b) == WriteOutcomes \cup BackupFailures(d, b)

\* the backup made without asking whether there is a document
BackupAlways(d, b, outcome) == [Rotate(b, RotateFrom) EXCEPT ![1] = d]

\* the backup made without rotating the generations
BackupCopyOnly(d, b, outcome) ==
    IF d.kind = "absent" THEN b ELSE [b EXCEPT ![1] = d]

\* _backup_data_file: nothing without a document; else rotate and copy the
\* document to .bak1. When it raises, what was done up to there stays: the
\* generations above the one whose rename raised are rotated (and .bak10
\* removed, when it was in the way of .bak9); a copy that raised leaves no
\* .bak1, a part of the document in it, or the whole document (copystat
\* raised).
BackupDataFile(d, b, outcome) ==
    IF d.kind = "absent" THEN b
    ELSE CASE outcome = "remove" -> b
           [] outcome \in Range(RenameFailed) ->
                [RotateDown(b, RotateFrom, RenameGen(outcome))
                    EXCEPT ![RenameGen(outcome) + 1] = Absent]
           [] outcome = "nocopy" -> Rotate(b, RotateFrom)
           [] outcome = "copy" -> [Rotate(b, RotateFrom) EXCEPT ![1] = Corrupt]
           [] outcome = "stat" -> [Rotate(b, RotateFrom) EXCEPT ![1] = d]
           [] OTHER -> [Rotate(b, RotateFrom) EXCEPT ![1] = d]

\* the document after save_entries(es): written, left as it was (open() raised,
\* or the backup raised and open() was never reached), or cut short
WrittenDoc(d, es, outcome) ==
    CASE outcome = "ok" -> Serialize(es)
      [] outcome = "partial" -> Corrupt
      [] OTHER -> d

-----------------------------------------------------------------------------
(* The registry and the handlers of MainWindow, as functions of the state   *)
(* record s = [entries, view, doc, backups, saves, fails, lastOp].          *)

IdsOf(es) == [i \in 1..Len(es) |-> es[i].id]

IdSet(es) == {es[i].id : i \in 1..Len(es)}

\* Python truthiness of an id ("if eid:")
Truthy(id) == id # 0

\* _refresh_list: one item per entry, its UserRole data the entry's id
RefreshList(es) == IdsOf(es)

\* The widget of an item: an EntryWidget ("entry", with the Run button) or a
\* SeparatorWidget ("separator"), the LauncherEntry object it was built with
\* (obj) and the fields that object has now (entry); "none" for an item
\* without a widget.
NoEntry == LauncherEntry(0, "", EmptyPath, "", "none")

NoWidget == [kind |-> "none", obj |-> 0, entry |-> NoEntry]

\* _refresh_list, lines 490-498: the widget made for each entry
RefreshWidgets(es, os) ==
    [i \in 1..Len(es) |->
        [kind |-> IF es[i].entry_type = "separator" THEN "separator" ELSE "entry",
         obj |-> os[i],
         entry |-> es[i]]]

\* the object o has got the fields e (get_entry, lines 427-432): the widgets
\* that hold it see them
Retarget(ws, o, e) ==
    [i \in 1..Len(ws) |->
        IF ws[i].kind # "none" /\ ws[i].obj = o THEN [ws[i] EXCEPT !.entry = e]
        ELSE ws[i]]

\* the objects load_entries makes: the i-th entry comes from the i-th record
\* that is an object, for which uuid4 was called
LoadedObjs(n, u) == [i \in 1..n |-> u + i]

\* the objects of the entries whose id is not id (line 578)
ObjsWithout(es, os, id) ==
    LET kept == SelectSeq([i \in 1..Len(es) |-> i], LAMBDA i : es[i].id # id)
    IN  [k \in 1..Len(kept) |-> os[kept[k]]]

\* _find_entry_by_id: the index of the first entry with that id, 0 for None
FindEntryById(es, id) ==
    IF \E i \in 1..Len(es) : es[i].id = id
    THEN CHOOSE i \in 1..Len(es) :
            es[i].id = id /\ \A j \in 1..(i - 1) : es[j].id # id
    ELSE 0

\* id_to_entry = {e.id: e for e in self.entries}: the last entry with the id
IdToEntry(es, id) ==
    es[CHOOSE i \in 1..Len(es) :
            es[i].id = id /\ \A j \in (i + 1)..Len(es) : es[j].id # id]

\* id_to_entry[eid], as the object it is
IdToObj(es, os, id) ==
    os[CHOOSE i \in 1..Len(es) :
            es[i].id = id /\ \A j \in (i + 1)..Len(es) : es[j].id # id]

\* a save that writes the document first and makes the backup afterwards
SaveEntriesWriteFirst(s, es, outcome) ==
    [s EXCEPT !.backups = BackupDataFile(WrittenDoc(s.doc, es, outcome), s.backups,
                                         outcome),
              !.doc = WrittenDoc(s.doc, es, outcome),
              !.saves = IF outcome = "ok" THEN s.saves + 1 ELSE s.saves,
              !.fails = IF outcome = "ok" THEN s.fails ELSE s.fails + 1]

\* save_entries(es) run in state s: the backup, then the write; it raises
\* unless the outcome is "ok", and when the backup raised the document is
\* never opened
SaveEntries(s, es, outcome) ==
    [s EXCEPT !.backups = BackupDataFile(s.doc, s.backups, outcome),
              !.doc = WrittenDoc(s.doc, es, outcome),
              !.saves = IF outcome = "ok" THEN s.saves + 1 ELSE s.saves,
              !.fails = IF outcome = "ok" THEN s.fails ELSE s.fails + 1]

\* EntryDialog.get_entry, lines 403-425: the validated fields, or ok = FALSE
\* for None. typeIdx is the combo index (1: category), yes the answer to the
\* question asked when the path does not exist; shown is "warning" when a
\* QMessageBox.warning told the user what is missing.
GetEntry(typeIdx, nameText, pathText, descText, yes) ==
    LET name == Strip(nameText)
        desc == Strip(descText)
        path == IF typeIdx = 1 THEN EmptyPath ELSE StripPath(pathText)
        entry_type == IF typeIdx = 1 THEN "separator" ELSE "app"
        valid == /\ name # ""
                 /\ typeIdx # 1 => /\ path # EmptyPath
                                   /\ (Exists(path) \/ yes)
        shown == IF name = "" \/ (typeIdx # 1 /\ path = EmptyPath)
                 THEN "warning" ELSE "none"
    IN  [ok |-> valid, name |-> name, path |-> path,
         description |-> desc, entry_type |-> entry_type, shown |-> shown]

\* _save_current_order, lines 592-598: the truthy ids of the items, in order
OrderedIds(v) == SelectSeq(v, Truthy)

\* the entries taken by position instead of by id
NewEntriesByPosition(es, ordered_ids) ==
    LET known == SelectSeq(ordered_ids, LAMBDA eid : eid \in IdSet(es))
        Pos(id) == CHOOSE k \in 1..Len(known) : known[k] = id
    IN  [i \in 1..Len(known) |->
            IF i <= Len(es) /\ es[i].id \in Range(known) /\ Pos(es[i].id) <= Len(es)
            THEN es[Pos(es[i].id)]
            ELSE IdToEntry(es, known[i])]

\* _save_current_order, lines 613-614
NewEntries(es, ordered_ids) ==
    LET known == SelectSeq(ordered_ids, LAMBDA eid : eid \in IdSet(es))
    IN  [i \in 1..Len(known) |-> IdToEntry(es, known[i])]

\* a best-effort merge: the ids reported are applied even when ids are missing
ReorderBestEffort(es, v) ==
    LET ordered_ids == OrderedIds(v)
    IN  IF Len(ordered_ids) # Cardinality(Range(ordered_ids))
        THEN [result |-> "duplicate", entries |-> es]
        ELSE [result |-> "applied", entries |-> NewEntries(es, ordered_ids)]

\* the handler without the count test of line 617
ReorderNoCount(es, v) ==
    LET ordered_ids == OrderedIds(v)
        missing_ids == IdSet(es) \ Range(ordered_ids)
    IN  IF missing_ids # {} THEN [result |-> "refresh", entries |-> es]
        ELSE IF Len(ordered_ids) # Cardinality(Range(ordered_ids))
             THEN [result |-> "duplicate", entries |-> es]
        ELSE [result |-> "applied", entries |-> NewEntries(es, ordered_ids)]

\* _save_current_order as a function of the registry and the reported items:
\* what it decides ("refresh": ids are missing, the list is rebuilt;
\* "duplicate" and "count": it returns without a word; "applied") and the
\* registry it leaves
Reorder(es, v) ==
    LET ordered_ids == OrderedIds(v)
        missing_ids == IdSet(es) \ Range(ordered_ids)
        new_entries == NewEntries(es, ordered_ids)
    IN  IF missing_ids # {} THEN [result |-> "refresh", entries |-> es]
        ELSE IF Len(ordered_ids) # Cardinality(Range(ordered_ids))
             THEN [result |-> "duplicate", entries |-> es]
        ELSE IF Len(new_entries) = Len(es)
             THEN [result |-> "applied", entries |-> new_entries]
        ELSE [result |-> "count", entries |-> es]

\* _save_current_order in state s
SaveCurrentOrder(s, outcome) ==
    LET r == Reorder(s.entries, s.view)
        log == [op |-> "reorder", S |-> s.view,
                result |-> r.result, outcome |-> "none", shown |-> "none"]
        os == [i \in 1..Len(r.entries) |-> IdToObj(s.entries, s.objs, r.entries[i].id)]
    IN  CASE r.result = "refresh" ->
                [s EXCEPT !.view = RefreshList(s.entries),
                          !.widgets = RefreshWidgets(s.entries, s.objs),
                          !.lastOp = log]
          [] r.result = "applied" ->
                [SaveEntries([s EXCEPT !.entries = r.entries, !.objs = os],
                             r.entries, outcome)
                    EXCEPT !.lastOp = [log EXCEPT !.outcome = outcome]]
          [] OTHER -> [s EXCEPT !.lastOp = log]

-----------------------------------------------------------------------------
(* The handlers. *)

\* the record of a handler's run; shown is the message box it put up
\* ("warning", "information", "critical"), "none" when it put up none
Log(op, s, S, result, outcome) ==
    [op |-> op, S |-> S, result |-> result, outcome |-> outcome, shown |-> "none"]

\* what follows a mutation of the registry to es, the objects os:
\* save_entries(self.entries) and then, unless it raised, _refresh_list()
SaveAndRefresh(s, es, os, outcome) ==
    LET s1 == SaveEntries([s EXCEPT !.entries = es, !.objs = os], es, outcome)
    IN  IF outcome = "ok"
        THEN [s1 EXCEPT !.view = RefreshList(es), !.widgets = RefreshWidgets(es, os)]
        ELSE s1

\* an add that numbers the entry by its place in the list
AddEntryByCount(s, id, g, outcome) ==
    IF ~g.ok THEN [s EXCEPT !.lastOp = [Log("add", s, << >>, "invalid", "none")
                                            EXCEPT !.shown = g.shown]]
    ELSE LET e == LauncherEntry(Len(s.entries) + 1, g.name, g.path,
                                g.description, g.entry_type)
         IN  [SaveAndRefresh(s, Append(s.entries, e), Append(s.objs, id), outcome)
                EXCEPT !.lastOp = Log("add", s, <<Len(s.entries) + 1>>, "applied", outcome)]

\* an add that puts the new entry first
AddEntryFirst(s, id, g, outcome) ==
    IF ~g.ok THEN [s EXCEPT !.lastOp = [Log("add", s, << >>, "invalid", "none")
                                            EXCEPT !.shown = g.shown]]
    ELSE LET e == LauncherEntry(id, g.name, g.path, g.description, g.entry_type)
         IN  [SaveAndRefresh(s, <<e>> \o s.entries, <<id>> \o s.objs, outcome)
                EXCEPT !.lastOp = Log("add", s, <<id>>, "applied", outcome)]

\* add_entry_dialog, lines 520-526, the dialog accepted: g is what get_entry
\* made of the fields, id the id of the entry it returns (the entry was made
\* by the uuid4 call that gave the id)
AddEntry(s, id, g, outcome) ==
    IF ~g.ok THEN [s EXCEPT !.lastOp = [Log("add", s, << >>, "invalid", "none")
                                            EXCEPT !.shown = g.shown]]
    ELSE LET e == LauncherEntry(id, g.name, g.path, g.description, g.entry_type)
         IN  [SaveAndRefresh(s, Append(s.entries, e), Append(s.objs, id), outcome)
                EXCEPT !.lastOp = Log("add", s, <<id>>, "applied", outcome)]

\* an edit done as a delete and an add: the edited entry goes to the end
EditEntryReplace(s, idx, g, outcome) ==
    IF ~g.ok THEN [s EXCEPT !.lastOp = [Log("edit", s, << >>, "invalid", "none")
                                            EXCEPT !.shown = g.shown]]
    ELSE LET e == LauncherEntry(s.entries[idx].id, g.name, g.path,
                                g.description, g.entry_type)
             rest == [k \in 1..(Len(s.entries) - 1) |->
                        IF k < idx THEN s.entries[k] ELSE s.entries[k + 1]]
             os == [k \in 1..(Len(s.entries) - 1) |->
                        IF k < idx THEN s.objs[k] ELSE s.objs[k + 1]]
         IN  [SaveAndRefresh(s, Append(rest, e), Append(os, s.objs[idx]), outcome)
                EXCEPT !.lastOp = Log("edit", s, <<s.entries[idx].id>>, "applied", outcome)]

\* edit_selected, lines 532-538, on the entry at index idx: get_entry writes
\* the fields into the entry itself (lines 427-432), where the widgets built
\* with it find them
EditEntry(s, idx, g, outcome) ==
    IF ~g.ok THEN [s EXCEPT !.lastOp = [Log("edit", s, << >>, "invalid", "none")
                                            EXCEPT !.shown = g.shown]]
    ELSE LET e == LauncherEntry(s.entries[idx].id, g.name, g.path,
                                g.description, g.entry_type)
         IN  [SaveAndRefresh([s EXCEPT !.widgets = Retarget(s.widgets, s.objs[idx], e)],
                             [s.entries EXCEPT ![idx] = e], s.objs, outcome)
                EXCEPT !.lastOp = Log("edit", s, <<s.entries[idx].id>>, "applied", outcome)]

\* a delete that saves the list before it removes the entry
DeleteEntryStale(s, idx, outcome) ==
    LET id == s.entries[idx].id
        es == SelectSeq(s.entries, LAMBDA e : e.id # id)
        os == ObjsWithout(s.entries, s.objs, id)
        s1 == SaveEntries(s, s.entries, outcome)
    IN  [s1 EXCEPT !.entries = es,
                   !.objs = os,
                   !.view = IF outcome = "ok" THEN RefreshList(es) ELSE s1.view,
                   !.widgets = IF outcome = "ok" THEN RefreshWidgets(es, os)
                               ELSE s1.widgets,
                   !.lastOp = Log("delete", s, <<id>>, "applied", outcome)]

\* _delete_entry, lines 578-580, the question answered Yes
DeleteEntry(s, idx, outcome) ==
    LET id == s.entries[idx].id
        es == SelectSeq(s.entries, LAMBDA e : e.id # id)
    IN  [SaveAndRefresh(s, es, ObjsWithout(s.entries, s.objs, id), outcome)
            EXCEPT !.lastOp = Log("delete", s, <<id>>, "applied", outcome)]

\* The outcomes of shutil.copy2(backup, document) in restore_from_backup:
\* "ok", or it raised: "open" (before the document was touched), "partial"
\* (with a part of the backup written) or "stat" (in copystat, after the whole
\* backup was written: os.utime or chmod refused).
RestoreOutcomes == {"ok", "open", "partial", "stat"}

\* a restore that moves the backup over the document instead of copying it
RestoreByMove(s, g, outcome) ==
    [s EXCEPT !.doc = CASE outcome \in {"ok", "stat"} -> s.backups[g]
                        [] outcome = "open" -> s.doc
                        [] OTHER -> Corrupt,
              !.backups = IF outcome = "ok" THEN [s.backups EXCEPT ![g] = Absent]
                          ELSE s.backups,
              !.fails = IF outcome = "ok" THEN s.fails ELSE s.fails + 1,
              !.lastOp = [Log("restore", s, <<g>>,
                              IF outcome = "ok" THEN "restored" ELSE "failed", outcome)
                            EXCEPT !.shown = IF outcome = "ok" THEN "information"
                                             ELSE "warning"]]

\* do_restore, lines 655-660: restore_from_backup(backups[row]) copies the
\* backup over the document (shutil.copy2) and answers True, or False when the
\* copy raised (the document may by then hold the whole backup); an
\* information box or a warning box follows
RestoreFromBackup(s, g, outcome) ==
    [s EXCEPT !.doc = CASE outcome \in {"ok", "stat"} -> s.backups[g]
                        [] outcome = "open" -> s.doc
                        [] OTHER -> Corrupt,
              !.fails = IF outcome = "ok" THEN s.fails ELSE s.fails + 1,
              !.lastOp = [Log("restore", s, <<g>>,
                              IF outcome = "ok" THEN "restored" ELSE "failed", outcome)
                            EXCEPT !.shown = IF outcome = "ok" THEN "information"
                                             ELSE "warning"]]

\* What Qt's own dropEvent does to the rows on an internal move.
\* The item of row i moved to row j:
MoveRow(v, i, j) ==
    LET without == [k \in 1..(Len(v) - 1) |-> IF k < i THEN v[k] ELSE v[k + 1]]
    IN  [k \in 1..Len(v) |-> IF k < j THEN without[k]
                             ELSE IF k = j THEN v[i] ELSE without[k - 1]]

\* a copy of the item of row i inserted before row j, or after the last row
\* when j is one more than their number (the source row not yet removed)
InsertCopy(v, i, j) ==
    [k \in 1..(Len(v) + 1) |-> IF k < j THEN v[k]
                               ELSE IF k = j THEN v[i] ELSE v[k - 1]]

\* the widgets when a new item is put before row j: it has none
InsertBare(ws, j) ==
    [k \in 1..(Len(ws) + 1) |-> IF k < j THEN ws[k]
                                ELSE IF k = j THEN NoWidget ELSE ws[k - 1]]

\* the row the dragged item is in once its copy stands before row j
SourceRow(i, j) == IF i < j THEN i ELSE i + 1

\* the item of row i gone
LoseRow(v, i) == [k \in 1..(Len(v) - 1) |-> IF k < i THEN v[k] ELSE v[k + 1]]

-----------------------------------------------------------------------------
(* _run_entry. *)

\* str.lower() on the extensions in use
Lower(ext) ==
    CASE ext = ".PY" -> ".py"
      [] ext = ".Pyw" -> ".pyw"
      [] ext = ".EXE" -> ".exe"
      [] ext = ".Cmd" -> ".cmd"
      [] OTHER -> ext

\* os.path.splitext(path)[1]
SplitExt(p) == p.ext

\* os.path.dirname(path)
Dirname(p) == p.dir

\* What _run_entry(entry) hands to the operating system: kind is the branch
\* taken ("python": the interpreter in a new cmd window, "direct": the file
\* itself in a new cmd window, "default": the file opened without a console,
\* "none": nothing was handed over), via the call made ("shell":
\* subprocess.Popen(cmd, shell=True), "startfile": os.startfile(path), "popen":
\* subprocess.Popen([path], cwd=cwd)), cd the directory the command changes to
\* with cd /d, or the cwd argument of Popen ("" when there is none), target
\* the path.
NoPlan == [entry |-> NoEntry, kind |-> "none", console |-> FALSE, cd |-> "",
           via |-> "none", target |-> EmptyPath]

\* _run_entry returned before it started anything (lines 673-679)
Nothing(e) == [NoPlan EXCEPT !.entry = e]

\* _run_entry, lines 680-699: the extension decides. cwd is dirname(path) or
\* None; the python command formats it as it is (None prints as "None"), the
\* direct command leaves the cd out when there is none.
PlanFor(e, win) ==
    LET path == e.path
        ext == Lower(SplitExt(path))
        cwd == Dirname(path)
    IN  IF ext \in {".py", ".pyw"}
        THEN [entry |-> e, kind |-> "python", console |-> TRUE,
              cd |-> IF cwd = "" THEN "None" ELSE cwd,
              via |-> "shell", target |-> path]
        ELSE IF ext \in {".exe", ".bat", ".cmd"}
        THEN [entry |-> e, kind |-> "direct", console |-> TRUE, cd |-> cwd,
              via |-> "shell", target |-> path]
        ELSE [entry |-> e, kind |-> "default", console |-> FALSE,
              cd |-> IF win THEN "" ELSE cwd,
              via |-> IF win THEN "startfile" ELSE "popen", target |-> path]

\* a run that does not look whether the file is there
RunEntryUnchecked(e, win, raised) ==
    IF e.entry_type = "separator"
    THEN [result |-> "inapplicable", shown |-> "none", plan |-> Nothing(e)]
    ELSE [result |-> IF raised THEN "error" ELSE "started",
          shown |-> IF raised THEN "critical" ELSE "none",
          plan |-> PlanFor(e, win)]

\* _run_entry(e): win says whether sys.platform starts with "win", raised
\* whether the call that starts the process raised. The result is
\* "inapplicable" (a category: return), "missing" (the path does not exist: a
\* warning, return), "started", or "error" (the call raised: a critical box).
RunEntry(e, win, raised) ==
    IF e.entry_type = "separator"
    THEN [result |-> "inapplicable", shown |-> "none", plan |-> Nothing(e)]
    ELSE IF ~Exists(e.path)
    THEN [result |-> "missing", shown |-> "warning", plan |-> Nothing(e)]
    ELSE [result |-> IF raised THEN "error" ELSE "started",
          shown |-> IF raised THEN "critical" ELSE "none",
          plan |-> PlanFor(e, win)]

-----------------------------------------------------------------------------
(* The state machine. *)

St == [entries |-> entries, view |-> view, doc |-> doc, backups |-> backups,
       saves |-> saves, fails |-> fails, lastOp |-> lastOp,
       objs |-> objs, widgets |-> widgets]

Commit(s) ==
    LET r == s
    IN  /\ entries' = r.entries
        /\ view' = r.view
        /\ doc' = r.doc
        /\ backups' = r.backups
        /\ saves' = r.saves
        /\ fails' = r.fails
        /\ lastOp' = r.lastOp
        /\ objs' = r.objs
        /\ widgets' = r.widgets
        /\ files' = files
        /\ plan' = NoPlan

Failed(outcome) == IF outcome = "ok" THEN 0 ELSE 1

\* a well-formed record of a document
Rec(id, name, path, entry_type) ==
    AsDict(LauncherEntry(id, name, path, "", entry_type))

\* the documents found on disk at start-up
InitDocs ==
    { Absent, Corrupt,
      \* one well-formed record, one without "name", one that is no object
      Document(<<Rec(101, "Notes", NotesPy, "app"),
                 JsonObject([id |-> 102, path |-> CalcExe]),
                 JsonScalar>>),
      \* two records with one id
      Document(<<Rec(101, "Notes", NotesPy, "app"),
                 Rec(101, "Calc", CalcExe, "app")>>),
      \* a falsy id, and a record without "id"
      Document(<<Rec(0, "Notes", NotesPy, "app"),
                 JsonObject([name |-> "Calc", path |-> CalcExe])>>),
      \* three entries
      Document(<<Rec(101, "Notes", NotesPy, "app"),
                 Rec(102, "Tools", EmptyPath, "separator"),
                 Rec(103, "Calc", CalcExe, "app")>>) }

\* MainWindow.__init__: self.entries = load_entries(); self._refresh_list()
Init ==
    /\ doc \in InitDocs
    /\ backups = NoBackups
    /\ LET loaded == LoadEntries(doc, 0)
       IN  /\ entries = loaded.entries
           /\ uuids = loaded.uuids
           /\ objs = LoadedObjs(Len(loaded.entries), 0)
           /\ view = RefreshList(loaded.entries)
           /\ widgets = RefreshWidgets(loaded.entries, LoadedObjs(Len(loaded.entries), 0))
    /\ saves = 0
    /\ fails = 0
    /\ restores = 0
    /\ hist = <<doc>>
    /\ lastOp = [op |-> "load", S |-> << >>, result |-> "loaded", outcome |-> "none",
                 shown |-> "none"]
    /\ files = ExistingPaths
    /\ plan = NoPlan
    /\ calls = 0

\* the entries the run started with: load_entries makes one of every record
\* that is an object
Started == Cardinality({i \in 1..Len(hist[1].items) : hist[1].items[i].dict})

\* the budget of the run
Budget ==
    IF Started <= 3 THEN MaxIO ELSE MaxIOMany

CanDo(n, failed) ==
    /\ saves + restores + calls + 2 * fails + n + failed <= Budget
    /\ fails + failed <= MaxFails

CanSave(outcome) == CanDo(1, Failed(outcome))

\* a handler call that neither saved nor restored is counted
Counted == calls' = IF saves' = saves /\ fails' = fails THEN calls + 1 ELSE calls

\* the outcomes of the save of a handler run in state s: there is none to
\* choose unless it saves
OutcomesIn(s, saving) == IF saving THEN SaveOutcomes(s.doc, s.backups) ELSE {"ok"}

Outcomes(saving) == OutcomesIn(St, saving)

\* the answers to the question get_entry asks when the path does not exist
Answers(typeIdx, pathText) ==
    IF typeIdx # 1 /\ StripPath(pathText) # EmptyPath /\ ~Exists(StripPath(pathText))
    THEN BOOLEAN ELSE {TRUE}

\* the contents of the path field that matter: get_entry does not read the
\* field of a category, nor any field once it has found the name empty
PathsRead(typeIdx, nameText) ==
    IF typeIdx = 1 \/ Strip(nameText) = "" THEN {BlankPath} ELSE PathInputs

\* whether _save_current_order would save, given the items v
WouldSave(es, v) == Reorder(es, v).result = "applied"

\* add_entry_dialog() from the + button or the context menu
AddEntryDialog ==
    \E typeIdx \in {0, 1}, nameText \in NameInputs, descText \in DescInputs :
      \E pathText \in PathsRead(typeIdx, nameText) :
      \E yes \in Answers(typeIdx, pathText) :
      \E outcome \in Outcomes(GetEntry(typeIdx, nameText, pathText, descText, yes).ok) :
        /\ Len(entries) < MaxEntries
        /\ CanSave(outcome)
        /\ Commit(AddEntry(St, uuids + 1,
                           GetEntry(typeIdx, nameText, pathText, descText, yes),
                           outcome))
        /\ uuids' = IF GetEntry(typeIdx, nameText, pathText, descText, yes).ok
                    THEN uuids + 1 ELSE uuids
        /\ Counted
        /\ UNCHANGED <<restores, hist>>

\* _handle_files_dropped for one dropped file p: add_entry_dialog(from_path=p).
\* from_file(p) makes the entry the dialog is filled from, and with it a call
\* of uuid4, whatever becomes of the dialog. The user sets the type and the
\* description, may blank the name, and accepts, or cancels the dialog: then,
\* as when get_entry returns None, nothing but the call of uuid4 has happened.
\* The file dragged in from the file manager exists.
HandleFilesDropped ==
    \E p \in DroppedPaths, accepted \in BOOLEAN :
      \E typeIdx \in (IF accepted THEN {0, 1} ELSE {0}),
         nameText \in (IF accepted THEN {BaseName(p), " "} ELSE {BaseName(p)}),
         descText \in DescInputs :
      \E yes \in Answers(typeIdx, Abspath(p)) :
      \E outcome \in Outcomes(accepted
                                /\ GetEntry(typeIdx, nameText, Abspath(p), descText, yes).ok) :
        /\ Exists(p)
        /\ IF accepted /\ GetEntry(typeIdx, nameText, Abspath(p), descText, yes).ok
           THEN Len(entries) < MaxEntries /\ CanSave(outcome)
           ELSE CanDo(1, 0)
        /\ Commit(IF accepted
                  THEN AddEntry(St, uuids + 1,
                                GetEntry(typeIdx, nameText, Abspath(p), descText, yes),
                                outcome)
                  ELSE [St EXCEPT !.lastOp = Log("add", St, << >>, "cancelled", "none")])
        /\ uuids' = uuids + 1
        /\ Counted
        /\ UNCHANGED <<restores, hist>>

\* edit_selected() with the item of row row current
EditSelected ==
    \E row \in 1..Len(view), typeIdx \in {0, 1}, nameText \in NameInputs,
       descText \in DescInputs :
      \E pathText \in PathsRead(typeIdx, nameText) :
      \E yes \in Answers(typeIdx, pathText) :
      \E outcome \in Outcomes(GetEntry(typeIdx, nameText, pathText, descText, yes).ok) :
        /\ FindEntryById(entries, view[row]) # 0
        /\ CanSave(outcome)
        /\ Commit(EditEntry(St, FindEntryById(entries, view[row]),
                            GetEntry(typeIdx, nameText, pathText, descText, yes),
                            outcome))
        /\ Counted
        /\ UNCHANGED <<uuids, restores, hist>>

\* _context_menu on the item of row row, Delete chosen and confirmed
DeleteFromMenu ==
    \E row \in 1..Len(view), outcome \in Outcomes(TRUE) :
        /\ FindEntryById(entries, view[row]) # 0
        /\ CanSave(outcome)
        /\ Commit(DeleteEntry(St, FindEntryById(entries, view[row]), outcome))
        /\ Counted
        /\ UNCHANGED <<uuids, restores, hist>>

\* the list after Qt has done to it what the state t says
Shown(t) == [St EXCEPT !.view = t.view, !.widgets = t.widgets]

\* dropEvent, a drop between two rows: Qt moves the row (its widget with it)
\* and emits rowsMoved, so _save_current_order runs from _on_rows_moved and
\* again from line 317
DropMove ==
    \E i \in 1..Len(view), j \in 1..Len(view) :
      LET moved == Shown([view |-> MoveRow(view, i, j),
                          widgets |-> MoveRow(widgets, i, j)])
      IN
      \E o1 \in Outcomes(WouldSave(entries, moved.view)) :
      \E o2 \in (LET s1 == SaveCurrentOrder(moved, o1)
                 IN  OutcomesIn(s1, WouldSave(s1.entries, s1.view))) :
        /\ i # j
        /\ CanDo(1, Failed(o1) + Failed(o2))
        /\ Commit(SaveCurrentOrder(SaveCurrentOrder(moved, o1), o2))
        /\ Counted
        /\ UNCHANGED <<uuids, restores, hist>>

\* dropEvent, a drop onto a row: Qt inserts a copy of the dragged item (an
\* item without a widget), line 317 runs _save_current_order, and Qt removes
\* the source row once the drag has returned (unless the handler rebuilt the
\* list meanwhile)
DropOnItem ==
    \E i \in 1..Len(view), j \in 1..(Len(view) + 1) :
      \E outcome \in Outcomes(WouldSave(entries, InsertCopy(view, i, j))) :
        /\ CanSave(outcome)
        /\ LET s1 == SaveCurrentOrder(Shown([view |-> InsertCopy(view, i, j),
                                             widgets |-> InsertBare(widgets, j)]),
                                      outcome)
           IN  Commit(IF s1.lastOp.result = "refresh" THEN s1
                      ELSE [s1 EXCEPT
                              !.view = LoseRow(InsertCopy(view, i, j), SourceRow(i, j)),
                              !.widgets = LoseRow(InsertBare(widgets, j),
                                                  SourceRow(i, j))])
        /\ Counted
        /\ UNCHANGED <<uuids, restores, hist>>

\* dropEvent, the dragged item lost by Qt (the count has gone down, line 313)
DropLose ==
    \E i \in 1..Len(view) :
      \E outcome \in Outcomes(WouldSave(entries, LoseRow(view, i))) :
        /\ CanSave(outcome)
        /\ Commit(SaveCurrentOrder(Shown([view |-> LoseRow(view, i),
                                          widgets |-> LoseRow(widgets, i)]),
                                   outcome))
        /\ Counted
        /\ UNCHANGED <<uuids, restores, hist>>

\* show_restore_dialog, do_restore with row row of the list current
DoRestore ==
    \E row \in 1..Len(GetBackupFiles(backups)), outcome \in RestoreOutcomes :
        /\ CanSave(outcome)
        /\ Commit(RestoreFromBackup(St, GetBackupFiles(backups)[row], outcome))
        /\ restores' = IF outcome = "ok" THEN restores + 1 ELSE restores
        /\ UNCHANGED <<uuids, hist, calls>>

\* whether _run_entry(e) gets as far as starting a process
Launchable(e) == e.entry_type # "separator" /\ Exists(e.path)

\* _run_entry(e), called by a handler: the platform and whether the start
\* raises are the environment's to choose
Run(e) ==
    \E win \in (IF Launchable(e) THEN BOOLEAN ELSE {TRUE}),
       raised \in (IF Launchable(e) THEN BOOLEAN ELSE {FALSE}) :
        /\ plan' = RunEntry(e, win, raised).plan
        /\ lastOp' = [op |-> "run", S |-> <<e.id>>,
                      result |-> RunEntry(e, win, raised).result,
                      outcome |-> "none",
                      shown |-> RunEntry(e, win, raised).shown]
        /\ CanDo(1, 0)
        /\ calls' = calls + 1
        /\ UNCHANGED <<entries, view, doc, backups, uuids, saves, fails, restores,
                       hist, files, objs, widgets>>

\* the Run button of the EntryWidget of row row, line 217: on_run(self.entry),
\* the entry the widget was built with, as it is now (it may have been edited
\* into a category, or deleted from the registry, while the list was not
\* rebuilt)
RunButton ==
    \E row \in 1..Len(widgets) :
        /\ widgets[row].kind = "entry"
        /\ Run(widgets[row].entry)

\* _context_menu on the item of row row, Run chosen (lines 551-568): the
\* entry is the one the item's id finds, and Run is offered unless it is a
\* category
RunFromMenu ==
    \E row \in 1..Len(view) :
        /\ FindEntryById(entries, view[row]) # 0
        /\ entries[FindEntryById(entries, view[row])].entry_type # "separator"
        /\ Run(entries[FindEntryById(entries, view[row])])

Next ==
    \/ AddEntryDialog
    \/ HandleFilesDropped
    \/ EditSelected
    \/ DeleteFromMenu
    \/ DropMove
    \/ DropOnItem
    \/ DropLose
    \/ DoRestore
    \/ RunButton
    \/ RunFromMenu

Spec == Init /\ [][Next]_vars

-----------------------------------------------------------------------------
(* Launching: the registry as loaded from documents whose entries have paths *)
(* of every sort, the dialogs that add and edit, _run_entry, and files that  *)
(* disappear while the program runs.                                         *)

RunDocs ==
    { Absent,
      \* two records with one id
      Document(<<Rec(101, "Notes", NotesPy, "app"),
                 Rec(101, "Calc", CalcExe, "app")>>),
      \* the extensions of the console plans, with and without a directory
      Document(<<Rec(101, "Notes", NotesPy, "app"),
                 Rec(102, "Tools", NotesPy, "separator"),
                 Rec(103, "Calc", CalcExe, "app"),
                 Rec(104, "job", RelPy, "app"),
                 Rec(105, "Gui", GuiPyw, "app"),
                 Rec(106, "build", RelBat, "app")>>),
      \* a file that is not there, the other extensions, a category
      Document(<<Rec(101, "Setup", SetupCmd, "app"),
                 Rec(102, "Gone", GoneBat, "app"),
                 Rec(103, "README", ReadMe, "app"),
                 Rec(104, "readme", RelTxt, "app"),
                 Rec(105, "Tools", EmptyPath, "separator")>>) }

InitRun ==
    /\ doc \in RunDocs
    /\ backups = NoBackups
    /\ LET loaded == LoadEntries(doc, 0)
       IN  /\ entries = loaded.entries
           /\ uuids = loaded.uuids
           /\ objs = LoadedObjs(Len(loaded.entries), 0)
           /\ view = RefreshList(loaded.entries)
           /\ widgets = RefreshWidgets(loaded.entries, LoadedObjs(Len(loaded.entries), 0))
    /\ saves = 0
    /\ fails = 0
    /\ restores = 0
    /\ hist = <<doc>>
    /\ lastOp = [op |-> "load", S |-> << >>, result |-> "loaded", outcome |-> "none",
                 shown |-> "none"]
    /\ files = ExistingPaths
    /\ plan = NoPlan
    /\ calls = 0

\* a file an entry points to is deleted or moved away by someone else
FileGone ==
    \E i \in 1..Len(entries) :
        /\ Cardinality(ExistingPaths \ files) < MaxGone
        /\ Exists(entries[i].path)
        /\ files' = files \ {Abspath(entries[i].path)}
        /\ UNCHANGED <<entries, view, doc, backups, uuids, saves, fails, restores,
                       hist, lastOp, plan, objs, widgets, calls>>

NextRun ==
    \/ AddEntryDialog
    \/ HandleFilesDropped
    \/ EditSelected
    \/ DeleteFromMenu
    \/ DropMove
    \/ DropOnItem
    \/ DropLose
    \/ DoRestore
    \/ RunButton
    \/ RunFromMenu
    \/ FileGone

SpecRun == InitRun /\ [][NextRun]_vars

-----------------------------------------------------------------------------
(* The persistence store on its own: save_entries and restore_from_backup   *)
(* called with lists from a palette. A run without a failed write or a      *)
(* restore goes on for MaxStoreSaves saves, any other for MaxIO calls.      *)

SavePalette ==
    { <<LauncherEntry(1, "Notes", NotesPy, "tool", "app")>>,
      <<LauncherEntry(2, "Tools", EmptyPath, "", "separator"),
        LauncherEntry(3, "Calc", CalcExe, "", "app")>> }

StoreDocs == { Absent, Corrupt, Document(<<Rec(101, "Notes", NotesPy, "app")>>) }

Start == [op |-> "start", S |-> << >>, result |-> "none", outcome |-> "none",
          shown |-> "none"]

InitStore ==
    /\ doc \in StoreDocs
    /\ backups = NoBackups
    /\ entries = << >>
    /\ objs = << >>
    /\ view = << >>
    /\ widgets = << >>
    /\ uuids = 0
    /\ saves = 0
    /\ fails = 0
    /\ restores = 0
    /\ hist = <<doc>>
    /\ lastOp = Start
    /\ files = ExistingPaths
    /\ plan = NoPlan
    /\ calls = 0

\* save_entries(es) called by an owner of the list es of the objects os
SaveList(es, os, outcome) ==
    LET s1 == SaveEntries([St EXCEPT !.entries = es, !.objs = os], es, outcome)
    IN  /\ Commit([s1 EXCEPT !.lastOp =
                     Log("save", St, << >>,
                         IF outcome = "ok" THEN "saved" ELSE "raised", outcome)])
        /\ hist' = IF outcome = "ok" THEN Append(hist, s1.doc) ELSE hist
        /\ UNCHANGED <<uuids, restores, calls>>

StoreSave ==
    \E es \in SavePalette, outcome \in Outcomes(TRUE) :
        /\ \/ fails + restores = 0 /\ saves < MaxStoreSaves
           \/ saves + fails + restores < MaxIO
        /\ fails + Failed(outcome) <= MaxFails
        /\ SaveList(es, IdsOf(es), outcome)

StoreRestore ==
    \E row \in 1..Len(GetBackupFiles(backups)), outcome \in RestoreOutcomes :
        /\ CanSave(outcome)
        /\ Commit(RestoreFromBackup(St, GetBackupFiles(backups)[row], outcome))
        /\ restores' = IF outcome = "ok" THEN restores + 1 ELSE restores
        /\ UNCHANGED <<uuids, hist, calls>>

NextStore ==
    \/ StoreSave
    \/ StoreRestore

SpecStore == InitStore /\ [][NextStore]_vars

\* The store started without a document (none was ever written, or it was
\* deleted) while backups of earlier runs may lie beside it.
OldBackups ==
    { NoBackups,
      [g \in Gens |-> IF g = 1 THEN Document(<<Rec(101, "Notes", NotesPy, "app")>>)
                      ELSE IF g = 2 THEN Document(<< >>)
                      ELSE Absent],
      [g \in Gens |-> IF g = 3 THEN Document(<<Rec(101, "Notes", NotesPy, "app")>>)
                      ELSE Absent],
      [g \in Gens |-> Document(<<Rec(100 + g, "Notes", NotesPy, "app")>>)] }

InitFirst ==
    /\ doc = Absent
    /\ backups \in OldBackups
    /\ entries = << >>
    /\ objs = << >>
    /\ view = << >>
    /\ widgets = << >>
    /\ uuids = 0
    /\ saves = 0
    /\ fails = 0
    /\ restores = 0
    /\ hist = <<doc>>
    /\ lastOp = Start
    /\ files = ExistingPaths
    /\ plan = NoPlan
    /\ calls = 0

SpecFirst == InitFirst /\ [][NextStore]_vars

-----------------------------------------------------------------------------
(* The codec on its own: save_entries and load_entries applied to lists and *)
(* documents drawn from bounded sets.                                       *)

CodecEntries ==
    { LauncherEntry(id, name, NotesPy, "tool", "app") :
        id \in {0, 7}, name \in {"", "Notes"} }
    \cup
    { LauncherEntry(id, name, EmptyPath, "", "separator") :
        id \in {0, 7}, name \in {"", "Notes"} }

CodecLists ==
    UNION { [1..n -> CodecEntries] : n \in 0..MaxCodecLen }

CodecDocs == InitDocs \cup { NoEntries, Document(<< >>) }

InitCodec ==
    /\ doc \in CodecDocs
    /\ entries \in CodecLists
    /\ objs = LoadedObjs(Len(entries), 0)
    /\ backups = NoBackups
    /\ view = << >>
    /\ widgets = << >>
    /\ uuids = 0
    /\ saves = 0
    /\ fails = 0
    /\ restores = 0
    /\ hist = <<doc>>
    /\ lastOp = Start
    /\ files = ExistingPaths
    /\ plan = NoPlan
    /\ calls = 0

\* save_entries(entries)
CodecSave ==
    \E outcome \in Outcomes(TRUE) :
        /\ CanSave(outcome)
        /\ SaveList(entries, objs, outcome)

\* entries = load_entries()
CodecLoad ==
    /\ lastOp.op # "load"
    /\ LET loaded == LoadEntries(doc, uuids)
       IN  /\ entries' = loaded.entries
           /\ uuids' = loaded.uuids
           /\ objs' = LoadedObjs(Len(loaded.entries), uuids)
    /\ lastOp' = [op |-> "load", S |-> << >>, result |-> "loaded", outcome |-> "none",
                  shown |-> "none"]
    /\ UNCHANGED <<view, widgets, doc, backups, saves, fails, restores, hist, files,
                   plan, calls>>

NextCodec ==
    \/ CodecSave
    \/ CodecLoad

SpecCodec == InitCodec /\ [][NextCodec]_vars

-----------------------------------------------------------------------------
(* Properties. *)

Min(a, b) == IF a < b THEN a ELSE b

DupFree(q) == \A i \in 1..Len(q) : \A j \in 1..Len(q) : q[i] = q[j] => i = j

DistinctIds(es) == DupFree(IdsOf(es))

\* the registry the program started with
InitialEntries == LoadEntries(hist[1], 0).entries

StartedEmpty == InitialEntries = << >>

GensPresent(b) == {g \in Gens : Present(b, g)}

Applied(op) == op.result = "applied"

Mutation(op) == op.op \in {"add", "edit", "delete", "reorder"} /\ Applied(op)

\* the program started with a registry of distinct, truthy ids
CleanStart ==
    /\ DistinctIds(InitialEntries)
    /\ \A i \in 1..Len(InitialEntries) : Truthy(InitialEntries[i].id)

\* C1 as stated (here for the runs that start with distinct, non-empty ids): a
\* reorder whose reported ids are not exactly the ids of the registry (some
\* missing, or some unknown) is rejected, and it leaves the registry, the
\* document and the backups as they were.
C1_ReorderSafety ==
    [][(CleanStart /\ lastOp'.op = "reorder" /\ Range(lastOp'.S) # IdSet(entries))
        => (~Applied(lastOp') /\ entries' = entries
            /\ doc' = doc /\ backups' = backups)]_vars

\* C1, amended: a reorder from whose reported ids some id of the registry is
\* missing is rejected, and it leaves the registry, the document and the
\* backups as they were. (Unknown ids among the reported ones are filtered out,
\* and the reorder is applied.)
C1_ReorderSafetyMissing ==
    [][(lastOp'.op = "reorder" /\ IdSet(entries) \ Range(lastOp'.S) # {})
        => (~Applied(lastOp') /\ entries' = entries
            /\ doc' = doc /\ backups' = backups)]_vars

\* Scenario B: two entries, one id reported, the reorder rejected
C1_Witness ==
    /\ lastOp.op = "reorder"
    /\ lastOp.result = "refresh"
    /\ Len(entries) = 2
    /\ Len(lastOp.S) = 1
    /\ IdSet(entries) \ Range(lastOp.S) # {}

\* C2: right after every mutation that was applied and saved (add, edit,
\* delete, accepted reorder), the document holds the entries of the registry,
\* record for record and in the registry's order.
C2_OrderFidelity ==
    (Mutation(lastOp) /\ lastOp.outcome = "ok")
        => /\ doc.kind = "object"
           /\ Len(doc.items) = Len(entries)
           /\ \A i \in 1..Len(entries) :
                /\ doc.items[i].dict
                /\ \A k \in FieldNames : doc.items[i].obj[k] = entries[i][k]

C2_Witness ==
    /\ lastOp.op = "delete"
    /\ lastOp.outcome = "ok"
    /\ saves >= 2
    /\ Len(entries) >= 1

\* C3: in a run of saves that all succeed, on a document that existed at the
\* start with no backups, the N-th save leaves exactly min(N, 10) generations,
\* and generation 1 holds the document as it was just before that save.
C3_BackupBound ==
    [][(lastOp'.op = "save" /\ lastOp'.outcome = "ok" /\ fails' = 0
            /\ hist[1].kind # "absent")
        => (/\ Cardinality(GensPresent(backups')) = Min(saves', MaxGen)
            /\ backups'[1] = doc)]_vars

C3_Witness ==
    /\ lastOp.op = "save"
    /\ lastOp.outcome = "ok"
    /\ fails = 0
    /\ hist[1].kind # "absent"
    /\ saves = MaxGen + 1
    /\ Cardinality(GensPresent(backups)) = MaxGen

\* C4: after N successive successful saves on a document that existed at the
\* start (S0 its content, Sk the content written by save k), generation i
\* holds S(N-i) for every i from 1 to min(N, 10), and no other generation
\* exists.
C4_Chronological ==
    (hist[1].kind # "absent" /\ fails = 0 /\ restores = 0 /\ Len(hist) = saves + 1)
        => /\ GensPresent(backups) = 1..Min(saves, MaxGen)
           /\ \A i \in 1..Min(saves, MaxGen) : backups[i] = hist[saves - i + 1]

\* Scenario D: twelve saves, generation 10 holds S2, which differs from S1 and S3
C4_Witness ==
    /\ hist[1].kind # "absent"
    /\ fails = 0
    /\ restores = 0
    /\ saves = 12
    /\ GensPresent(backups) = 1..10
    /\ backups[10] = hist[3]
    /\ hist[3] # hist[2]
    /\ hist[3] # hist[4]

\* C5: in a run that starts with an empty registry, the ids of the registry
\* are pairwise distinct after every step, and every id in the registry after
\* a step either was in the registry before the step or had never been handed
\* out before it (so the id of a deleted entry never comes back).
C5_FreshIds ==
    [][StartedEmpty
        => (/\ DistinctIds(entries')
            /\ \A i \in 1..Len(entries') :
                  \/ entries'[i].id \in IdSet(entries)
                  \/ entries'[i].id > uuids)]_vars

\* an entry added after the entry with the first id was deleted
C5_Witness ==
    /\ StartedEmpty
    /\ lastOp.op = "add"
    /\ Applied(lastOp)
    /\ uuids >= 2
    /\ Len(entries) = 1
    /\ 1 \notin IdSet(entries)

\* C6: the ids of the registry are pairwise distinct in every reachable
\* state, what load_entries returns for any structurally valid document
\* included.
C6_DistinctIds == DistinctIds(entries)

\* the records of a document that are JSON objects
ObjectRecords(d) == SelectSeq(d.items, LAMBDA it : it.dict)

\* C7 as stated: a load keeps exactly the records that are objects and have
\* a "name"; a record without "name" is dropped.
C7_DropsNameless ==
    (lastOp.op = "load" /\ doc.kind = "object")
        => Len(entries) =
             Len(SelectSeq(doc.items, LAMBDA it : it.dict /\ "name" \in DOMAIN it.obj))

\* C7, amended: a load drops the records that are not JSON objects and keeps
\* every record that is one, in array order, each member it has unchanged and
\* a missing "name" read as the empty string; one well-formed record and one
\* record without "name" load as two entries.
C7_TolerantLoad ==
    (lastOp.op = "load" /\ doc.kind = "object")
        => /\ Len(entries) = Len(ObjectRecords(doc))
           /\ \A i \in 1..Len(entries) :
                /\ \A k \in DOMAIN ObjectRecords(doc)[i].obj :
                      entries[i][k] = ObjectRecords(doc)[i].obj[k]
                /\ "name" \notin DOMAIN ObjectRecords(doc)[i].obj
                      => entries[i].name = ""

\* Scenario E, with a third record that is no object: two entries come back
C7_Witness ==
    /\ lastOp.op = "load"
    /\ doc.kind = "object"
    /\ Len(doc.items) = 3
    /\ ~doc.items[3].dict
    /\ "name" \notin DOMAIN doc.items[2].obj
    /\ Len(entries) = 2
    /\ entries[1].name = "Notes"
    /\ entries[2].name = ""

\* C8: a load that follows a save that succeeded returns the list that was
\* saved: the same length, and the same id, name, path, description and kind
\* at every index.
C8_RoundTrip ==
    [][(lastOp.op = "save" /\ lastOp.outcome = "ok" /\ lastOp'.op = "load")
        => (/\ Len(entries') = Len(entries)
            /\ \A i \in 1..Len(entries) :
                  \A k \in FieldNames : entries'[i][k] = entries[i][k])]_vars

\* two entries of the two kinds saved and loaded again
C8_Witness ==
    /\ lastOp.op = "load"
    /\ saves >= 1
    /\ fails = 0
    /\ Len(entries) = 2
    /\ entries[1].entry_type = "separator"
    /\ entries[2].entry_type = "app"
    /\ entries[2].description = "tool"
    /\ doc = Serialize(entries)

\* C9: a reorder whose reported sequence has no duplicate and has exactly the
\* ids of the registry is applied: the registry then has the reported order,
\* it holds the same entries as before, and the new order is written to the
\* document.
C9_AcceptedReorder ==
    [][(lastOp'.op = "reorder" /\ DupFree(lastOp'.S)
            /\ Range(lastOp'.S) = IdSet(entries))
        => (/\ Applied(lastOp')
            /\ IdsOf(entries') = lastOp'.S
            /\ Len(entries') = Len(entries)
            /\ Range(entries') = Range(entries)
            /\ lastOp'.outcome = "ok" => doc' = Serialize(entries'))]_vars

\* the sequences that are a permutation of the ids of es and pass validation
ValidPermutations(es) ==
    {S \in [1..Len(es) -> IdSet(es)] : DupFree(S) /\ Range(S) = IdSet(es)}

\* C10: for the registry of every reachable state and every valid permutation
\* S of its ids, a second reorder by S leaves the registry the first reorder
\* by S left, and is applied if the first one was.
C10_ReorderIdempotent ==
    \A S \in ValidPermutations(entries) :
        LET once == Reorder(entries, S)
            twice == Reorder(once.entries, S)
        IN  /\ twice.entries = once.entries
            /\ Applied(once) => Applied(twice)

\* a move of three entries applied by both calls of the handler
C10_Witness ==
    /\ lastOp.op = "reorder"
    /\ Applied(lastOp)
    /\ Len(entries) = 3
    /\ saves = 2
    /\ IdsOf(entries) = lastOp.S
    /\ IdsOf(entries) # IdsOf(InitialEntries)

\* C11: a reorder whose reported sequence holds some id more than once is
\* rejected, and it leaves the registry and the document as they were.
C11_DuplicateRejected ==
    [][(lastOp'.op = "reorder" /\ ~DupFree(lastOp'.S))
        => (~Applied(lastOp') /\ entries' = entries /\ doc' = doc)]_vars

\* the same for the ids the handler reads off the items (line 597: an item
\* whose id is the empty string is passed over); this holds
DuplicateReadRejected ==
    [][(lastOp'.op = "reorder" /\ ~DupFree(OrderedIds(lastOp'.S)))
        => (~Applied(lastOp') /\ entries' = entries /\ doc' = doc)]_vars

\* a handler turned its input down
Rejected(op) ==
    \/ op.op = "reorder" /\ ~Applied(op)
    \/ op.op = "restore" /\ op.result = "failed"

\* the user was told: a message box was put up, or the list was rebuilt from
\* the registry
Reported(op) == op.shown # "none" \/ op.result = "refresh"

\* C12: every rejected operation is reported (here for the runs that start
\* with distinct, non-empty ids): when reorder rejects the reported sequence
\* or restore fails, a message is shown or the list is resynchronized; no
\* rejection passes in silence.
C12_RejectionsReported ==
    (CleanStart /\ Rejected(lastOp)) => Reported(lastOp)

\* the texts a dialog may be accepted with
DialogNames == NameInputs \cup {"Notes"}
DialogPaths == PathInputs \cup {NotesPy, RelTxt}

\* C13: in every reachable state and for every content of the dialog, an add
\* with an empty name, or with an empty path for an application, leaves the
\* registry, the document and the backups as they are; any other add (the
\* path may be missing, if the user says Yes to keeping it) puts the new entry
\* last, with the fields entered, and leaves the entries before it as they are.
C13_AddValidates ==
    \A typeIdx \in {0, 1}, nameText \in DialogNames, pathText \in DialogPaths :
      \A yes \in Answers(typeIdx, pathText) :
      \A outcome \in Outcomes(GetEntry(typeIdx, nameText, pathText, " tool", yes).ok) :
        LET g == GetEntry(typeIdx, nameText, pathText, " tool", yes)
            after == AddEntry(St, uuids + 1, g, outcome)
            name == Strip(nameText)
            path == StripPath(pathText)
            refused == name = "" \/ (typeIdx = 0 /\ path = EmptyPath)
            declined == typeIdx = 0 /\ ~Exists(path) /\ ~yes
            new == LauncherEntry(uuids + 1, name,
                                 IF typeIdx = 1 THEN EmptyPath ELSE path, "tool",
                                 IF typeIdx = 1 THEN "separator" ELSE "app")
        IN  /\ refused => /\ after.entries = entries
                          /\ after.doc = doc
                          /\ after.backups = backups
            /\ (~refused /\ ~declined) => after.entries = Append(entries, new)

\* Scenario C: an application whose path does not exist added to a registry
\* of one entry
C13_Witness ==
    /\ lastOp.op = "add"
    /\ Applied(lastOp)
    /\ Len(entries) = 2
    /\ entries[2].id = lastOp.S[1]
    /\ entries[2].entry_type = "app"
    /\ ~Exists(entries[2].path)
    /\ entries[1].id # entries[2].id

\* the sequence q without its element i
Without(q, i) == [k \in 1..(Len(q) - 1) |-> IF k < i THEN q[k] ELSE q[k + 1]]

\* C14: a delete of an id the registry holds leaves the registry it found
\* with that one entry taken out (the others in their order, their fields
\* as they were), and when the write succeeds the document holds the result.
C14_DeleteExactlyOne ==
    [][lastOp'.op = "delete"
        => /\ \E idx \in 1..Len(entries) :
                /\ entries[idx].id = lastOp'.S[1]
                /\ entries' = Without(entries, idx)
           /\ lastOp'.outcome = "ok" => doc' = Serialize(entries')]_vars

\* the same for the runs that start with distinct, non-empty ids; this holds
DeleteExactlyOneClean ==
    [][(CleanStart /\ lastOp'.op = "delete")
        => /\ \E idx \in 1..Len(entries) :
                /\ entries[idx].id = lastOp'.S[1]
                /\ entries' = Without(entries, idx)
           /\ lastOp'.outcome = "ok" => doc' = Serialize(entries')]_vars

\* the paths an edit may be accepted with
EditPaths == PathInputs \cup {NotesPy}

\* C15: in every reachable state, for every row of the list that shows an
\* entry and every content of the dialog: an edit with an empty name, or
\* with an empty path for an application, leaves the registry, the document
\* and the backups as they are; any other edit (a missing path kept on Yes)
\* leaves the registry as long as it was, every other entry as it was, and
\* the edited entry at its index with its id and the fields entered.
C15_EditInPlace ==
    \A row \in 1..Len(view) :
      FindEntryById(entries, view[row]) # 0 =>
        \A typeIdx \in {0, 1}, nameText \in NameInputs, pathText \in EditPaths :
          \A yes \in Answers(typeIdx, pathText) :
          \A outcome \in Outcomes(GetEntry(typeIdx, nameText, pathText, " tool", yes).ok) :
            LET idx == FindEntryById(entries, view[row])
                g == GetEntry(typeIdx, nameText, pathText, " tool", yes)
                after == EditEntry(St, idx, g, outcome)
                name == Strip(nameText)
                path == StripPath(pathText)
                refused == name = "" \/ (typeIdx = 0 /\ path = EmptyPath)
                declined == typeIdx = 0 /\ ~Exists(path) /\ ~yes
                edited == LauncherEntry(view[row], name,
                                        IF typeIdx = 1 THEN EmptyPath ELSE path, "tool",
                                        IF typeIdx = 1 THEN "separator" ELSE "app")
            IN  /\ refused => /\ after.entries = entries
                              /\ after.doc = doc
                              /\ after.backups = backups
                /\ (~refused /\ ~declined) =>
                      /\ Len(after.entries) = Len(entries)
                      /\ after.entries[idx] = edited
                      /\ \A j \in 1..Len(entries) :
                            j # idx => after.entries[j] = entries[j]

\* the second of two entries edited from an application into a category
C15_Witness ==
    /\ lastOp.op = "edit"
    /\ Applied(lastOp)
    /\ Len(entries) = 2
    /\ IdsOf(entries) = IdsOf(InitialEntries)
    /\ entries[2].id = lastOp.S[1]
    /\ entries[2].name = "Calc"
    /\ entries[2].entry_type = "separator"
    /\ InitialEntries[2].entry_type = "app"
    /\ entries[1] = InitialEntries[1]

\* C16: a restore of generation g that succeeds leaves the document with the
\* content of generation g and leaves the registry, the list and every backup
\* generation as they were; a restore that fails says so (a warning is shown)
\* and leaves the registry and the backups as they were.
C16_RestoreFrame ==
    [][lastOp'.op = "restore"
        => /\ entries' = entries
           /\ view' = view
           /\ backups' = backups
           /\ lastOp'.result = "restored" => doc' = backups[lastOp'.S[1]]
           /\ lastOp'.result # "restored" =>
                 lastOp'.result = "failed" /\ lastOp'.shown = "warning"]_vars

\* generation 2 restored under a registry that holds something else
C16_Witness ==
    /\ lastOp.op = "restore"
    /\ lastOp.result = "restored"
    /\ lastOp.S = <<2>>
    /\ Present(backups, 2)
    /\ doc = backups[2]
    /\ Len(entries) >= 1
    /\ doc # Serialize(entries)

\* the entry a run was given
RunOf(p) == p.entry

\* the step is a call of _run_entry (and not a file that goes after one)
RunStep == lastOp'.op = "run" /\ files' = files

\* C17: a run of a category hands nothing to the operating system and starts
\* nothing; a run of an application whose path does not exist when it is run
\* (it never did, or the file has gone since) shows the warning and hands
\* nothing to the operating system.
C17_NothingUnlaunchable ==
    [][RunStep
        => /\ RunOf(plan').entry_type = "separator"
                => lastOp'.result = "inapplicable" /\ plan'.kind = "none"
           /\ (RunOf(plan').entry_type # "separator" /\ ~Exists(RunOf(plan').path))
                => /\ lastOp'.result = "missing"
                   /\ lastOp'.shown = "warning"
                   /\ plan'.kind = "none"]_vars

\* Scenario C: an application added with a path that does not exist, then run
C17_Witness ==
    /\ StartedEmpty
    /\ lastOp.op = "run"
    /\ lastOp.result = "missing"
    /\ saves >= 1
    /\ RunOf(plan).path = GoneBat
    /\ RunOf(plan).entry_type = "app"
    /\ plan.kind = "none"

\* the extensions of the two console plans, in the letter cases in use
PythonExts == {".py", ".PY", ".pyw", ".Pyw"}
DirectExts == {".exe", ".EXE", ".bat", ".cmd", ".Cmd"}

\* the directory a plan's command runs in: the one it changes to, or the
\* working directory of the launcher when it changes to none
WorkDir(p) == IF p.cd = "" THEN Cwd ELSE p.cd

\* the directory that holds the file
ContainingDir(path) == Abspath(path).dir

\* what C18 asks of the plan made for an existing application path
Dispatched(path, p) ==
    /\ p.target = path
    /\ SplitExt(path) \in PythonExts
          => p.kind = "python" /\ p.console /\ WorkDir(p) = ContainingDir(path)
    /\ SplitExt(path) \in DirectExts
          => p.kind = "direct" /\ p.console /\ WorkDir(p) = ContainingDir(path)
    /\ SplitExt(path) \notin PythonExts \cup DirectExts
          => p.kind = "default" /\ ~p.console

\* C18: every run of an application whose path exists makes exactly the plan
\* its extension asks for, whatever the letter case: .py and .pyw the
\* interpreter in a console, .exe, .bat and .cmd the file itself in a console,
\* anything else the default handler without a console; and the console plans
\* run in the directory that holds the file.
C18_LaunchDispatch ==
    [][(RunStep /\ Launchable(RunOf(plan')))
        => Dispatched(RunOf(plan').path, plan')]_vars

\* the same for the paths that name a directory; this holds
DispatchWithDirectory ==
    [][(RunStep /\ Launchable(RunOf(plan'))
            /\ Dirname(RunOf(plan').path) # "")
        => Dispatched(RunOf(plan').path, plan')]_vars

\* C19: every save that finds a document has rotated the backups and copied
\* the document to generation 1 before it touches the document: when the
\* write is about to begin (the state a failed open leaves) the document is
\* still as it was, and after a write that failed in any way, as after one
\* that succeeded, generation 1 exists and holds the document as it was
\* before the save, above the generations that were there, each moved up by
\* one. A save whose backup step raised never begins the write: it leaves
\* the document as it was.
C19_BackupBeforeWrite ==
    [][(lastOp'.op = "save" /\ doc.kind # "absent")
        => /\ lastOp'.outcome \in WriteOutcomes
                => /\ Present(backups', 1)
                   /\ backups'[1] = doc
                   /\ \A g \in 1..RotateFrom : backups'[g + 1] = backups[g]
           /\ lastOp'.outcome = "open" => doc' = doc
           /\ lastOp'.outcome \notin WriteOutcomes => doc' = doc]_vars

\* a write that broke off and left the document unreadable, the last saved
\* content in generation 1
C19_Witness ==
    /\ lastOp.op = "save"
    /\ lastOp.outcome = "partial"
    /\ saves >= 1
    /\ doc = Corrupt
    /\ backups[1].kind = "object"
    /\ backups[1] = hist[Len(hist)]
    /\ Present(backups, 2)

\* how many entries of es have the id
CountOf(es, id) == Cardinality({i \in 1..Len(es) : es[i].id = id})

\* the same entries by id, however ordered
SameMembers(es1, es2) ==
    /\ Len(es1) = Len(es2)
    /\ \A id \in IdSet(es1) \cup IdSet(es2) : CountOf(es1, id) = CountOf(es2, id)

\* C20: the membership of the registry changes only by add and delete: an
\* accepted add puts its one new id after the ids that were there, a delete
\* takes out the id it was given and no other, and every other step (a
\* reorder, accepted or rejected, whatever the reported sequence; an edit; a
\* refused add; a restore; a save that fails) leaves each id with as many
\* entries as it had.
C20_Membership ==
    [][CASE lastOp'.op = "add" /\ Applied(lastOp') ->
                IdsOf(entries') = Append(IdsOf(entries), lastOp'.S[1])
         [] lastOp'.op = "delete" ->
                /\ IdSet(entries') = IdSet(entries) \ {lastOp'.S[1]}
                /\ \A id \in IdSet(entries') : CountOf(entries', id) = CountOf(entries, id)
         [] OTHER -> SameMembers(entries, entries')]_vars

\* a reorder applied although the list reported an id the registry no longer
\* holds
C20_Witness ==
    /\ lastOp.op = "reorder"
    /\ Applied(lastOp)
    /\ Range(lastOp.S) # IdSet(entries)
    /\ Len(entries) = 2
    /\ IdsOf(entries) = OrderedIds(SelectSeq(lastOp.S, LAMBDA id : id \in IdSet(entries)))

\* C21: a save that finds no document rotates nothing and makes no backup:
\* every generation is after the save what it was before (present or not,
\* and its content), and the document is then written; whenever a save
\* changes a generation, it found a document.
C21_FirstSaveNoBackup ==
    [][lastOp'.op = "save"
        => /\ doc.kind = "absent"
                => /\ backups' = backups
                   /\ lastOp'.outcome = "ok" => doc' = Serialize(entries')
           /\ backups' # backups => doc.kind # "absent"]_vars

\* the first save of a store that has an old generation 3 and no other
C21_Witness ==
    /\ lastOp.op = "save"
    /\ lastOp.outcome = "ok"
    /\ saves = 1
    /\ fails = 0
    /\ restores = 0
    /\ hist[1] = Absent
    /\ GensPresent(backups) = {3}
    /\ doc = Serialize(entries)
    /\ Len(entries) >= 1

\* the generations present are 1..k for some k, and get_backup_files lists
\* them as 1, 2, ..., k
GapFree(b) ==
    \E k \in 0..MaxGen :
        /\ GensPresent(b) = 1..k
        /\ GetBackupFiles(b) = [i \in 1..k |-> i]

\* C22: in a store that started with no backups, after any sequence of saves
\* and restores that all completed, the generations present are 1..k for
\* some k from 0 to 10, and get_backup_files lists them as 1, 2, ..., k: the
\* row of a backup in the restore dialog is its generation number.
C22_GapFree == fails = 0 => GapFree(backups)

\* the same step by step: a restore, failed or not, and a save whose backup
\* step did not raise (the write may have) leave the generations without a
\* gap when they find them so; this holds
GapFreeKept ==
    [][(GapFree(backups) /\ lastOp'.outcome \in WriteOutcomes)
        => GapFree(backups')]_vars

\* a save whose backup step raises leaves them without a gap; this does not hold
GapFreeAlways == GapFree(backups)

\* generation 2 restored from the second row of a list of two
C22_Witness ==
    /\ fails = 0
    /\ lastOp.op = "restore"
    /\ lastOp.result = "restored"
    /\ lastOp.S = <<2>>
    /\ GetBackupFiles(backups) = <<1, 2>>
    /\ doc = backups[2]

\* C23 (here for the runs that start with distinct, non-empty ids): once the
\* handler of an order-changed notification has run, whatever the items
\* reported, the ids the list shows are the ids of the registry, in order.
C23_ViewAgrees ==
    (CleanStart /\ lastOp.op = "reorder") => view = IdsOf(entries)

\* the same for the notifications the handler answers by rebuilding the list
\* (ids were missing); this holds
ViewAgreesAfterRefresh ==
    (lastOp.op = "reorder" /\ lastOp.result = "refresh") => view = IdsOf(entries)

====
